---- MODULE Spec2Model ----
(***************************************************************************)
(* The CSV bulk-import pipeline of src/src/services/csvImport.ts           *)
(* (class CSVImportService): the job table activeImports, the stream       *)
(* coordinator processCSVStream with its Transform callback and its 'end'  *)
(* handler, the batch writer processBatch, the row transformer             *)
(* transformCSVRow, and the registry calls getImportProgress,              *)
(* cancelImport and cleanupImport.                                         *)
(*                                                                         *)
(* Strings are sequences of one-character strings; the JavaScript value    *)
(* undefined (a column the file does not have) is the value `undefined`.   *)
(* A number is a record [nan, v] so that NaN is a value of its own.        *)
(***************************************************************************)
EXTENDS Integers, Sequences, FiniteSets, TLC

(***************************************************************************)
(* Bounds of the model.                                                    *)
(***************************************************************************)
\* import ids the callers know of; in Spec each of them can be started
MaxJobs == 2
\* records the source of one job delivers (SpecJob)
MaxRows == 4
\* records the sources of all jobs deliver together (Spec)
MaxRowsAll == 2
\* largest options.batchSize a caller passes
MaxBatchSize == 2
\* stands for MAX_ERRORS = 10000 (csvImport.ts:49), scaled so that the
\* ceiling is reached within MaxRows records
MAX_ERRORS == 2
\* stands for the assumed total of 100000 records in the percentage
\* estimate (csvImport.ts:151), scaled so that the 99 cap is reached
ASSUMED_TOTAL == 3

(***************************************************************************)
(* Program constants.                                                      *)
(***************************************************************************)
BATCH_SIZE == 1000
\* new Date().getFullYear()
CurrentYear == 2026

JobIds == 1..MaxJobs

(***************************************************************************)
(* JavaScript strings and numbers.                                         *)
(***************************************************************************)
undefined == <<"undefined">>

Digits == <<"0", "1", "2", "3", "4", "5", "6", "7", "8", "9">>

IsDigit(c) == \E i \in 1..10 : Digits[i] = c

DigitVal(c) == (CHOOSE i \in 1..10 : Digits[i] = c) - 1

IsSpace(c) == c \in {" ", "\t", "\n", "\r"}

NaN == [nan |-> TRUE, v |-> 0]

Num(n) == [nan |-> FALSE, v |-> n]

\* !x for a number x
NumFalsy(x) == x.nan \/ x.v = 0

\* !s for a string or undefined
StrFalsy(s) == s = undefined \/ s = <<>>

\* a || b on strings
StrOr(a, b) == IF StrFalsy(a) THEN b ELSE a

RECURSIVE SkipSpaces(_)
SkipSpaces(s) ==
    IF s # <<>> /\ IsSpace(Head(s)) THEN SkipSpaces(Tail(s)) ELSE s

RECURSIVE DropTrailingSpaces(_)
DropTrailingSpaces(s) ==
    IF s # <<>> /\ IsSpace(s[Len(s)])
    THEN DropTrailingSpaces(SubSeq(s, 1, Len(s) - 1))
    ELSE s

\* s?.trim()
trim(s) == IF s = undefined THEN undefined ELSE DropTrailingSpaces(SkipSpaces(s))

Upper == <<"A", "B", "C", "D", "E", "F", "G", "H", "I", "J", "K", "L", "M",
           "N", "O", "P", "Q", "R", "S", "T", "U", "V", "W", "X", "Y", "Z">>

Lower == <<"a", "b", "c", "d", "e", "f", "g", "h", "i", "j", "k", "l", "m",
           "n", "o", "p", "q", "r", "s", "t", "u", "v", "w", "x", "y", "z">>

LowerChar(c) ==
    IF \E i \in 1..26 : Upper[i] = c
    THEN Lower[CHOOSE i \in 1..26 : Upper[i] = c]
    ELSE c

\* s?.toLowerCase()
toLowerCase(s) ==
    IF s = undefined THEN undefined ELSE [i \in 1..Len(s) |-> LowerChar(s[i])]

\* the longest prefix of decimal digits of s, as a number; -1 when empty
RECURSIVE DigitPrefix(_, _)
DigitPrefix(s, acc) ==
    IF s # <<>> /\ IsDigit(Head(s))
    THEN DigitPrefix(Tail(s), (IF acc < 0 THEN 0 ELSE acc) * 10 + DigitVal(Head(s)))
    ELSE acc

HexDigits == <<"0", "1", "2", "3", "4", "5", "6", "7", "8", "9",
               "a", "b", "c", "d", "e", "f">>

IsHexDigit(c) == \E i \in 1..16 : HexDigits[i] = LowerChar(c)

HexVal(c) == (CHOOSE i \in 1..16 : HexDigits[i] = LowerChar(c)) - 1

RECURSIVE HexPrefix(_, _)
HexPrefix(s, acc) ==
    IF s # <<>> /\ IsHexDigit(Head(s))
    THEN HexPrefix(Tail(s), (IF acc < 0 THEN 0 ELSE acc) * 16 + HexVal(Head(s)))
    ELSE acc

\* parseInt(s) with no radix: leading white space is skipped, then an
\* optional sign, then an optional 0x/0X prefix selecting radix 16, then the
\* longest prefix of digits; NaN when there is no digit.  undefined is
\* converted to the string "undefined", which has no digit.
parseInt(s) ==
    IF s = undefined THEN NaN
    ELSE LET t    == SkipSpaces(s)
             neg  == t # <<>> /\ Head(t) = "-"
             u    == IF t # <<>> /\ Head(t) \in {"-", "+"} THEN Tail(t) ELSE t
             hex  == Len(u) >= 2 /\ u[1] = "0" /\ u[2] \in {"x", "X"}
             mag  == IF hex THEN HexPrefix(SubSeq(u, 3, Len(u)), -1)
                     ELSE DigitPrefix(u, -1)
         IN  IF mag < 0 THEN NaN ELSE Num(IF neg THEN 0 - mag ELSE mag)

\* [^\s@]
EmailChar(c) == ~IsSpace(c) /\ c # "@"

\* /^[^\s@]+@[^\s@]+\.[^\s@]+$/.test(email)
isValidEmail(email) ==
    \E a \in 2..Len(email) : \E d \in 1..Len(email) :
        /\ email[a] = "@"
        /\ a + 1 < d
        /\ d < Len(email)
        /\ email[d] = "."
        /\ \A i \in 1..Len(email) : i # a => EmailChar(email[i])

(***************************************************************************)
(* Row Transformer.                                                        *)
(***************************************************************************)
\* one entry of CSVImportError; field "" and value undefined when absent,
\* no is the batch number the message quotes (-1 when it quotes none)
ImportError(row, field, value, error, no) ==
    [row |-> row, field |-> field, value |-> value, error |-> error, no |-> no]

\* the enums of models/enums.ts; the member OTHER is written Other
Gender == [MALE |-> "Male", FEMALE |-> "Female", Other |-> "Other"]

DeviceBrand ==
    [SAMSUNG |-> "Samsung", APPLE |-> "Apple", HUAWEI |-> "Huawei",
     XIAOMI |-> "Xiaomi", OPPO |-> "Oppo", VIVO |-> "Vivo", Other |-> "Other"]

DigitalInterest ==
    [SOCIAL_MEDIA |-> "Social Media", GAMING |-> "Gaming", SHOPPING |-> "Shopping",
     NEWS |-> "News", ENTERTAINMENT |-> "Entertainment", EDUCATION |-> "Education",
     HEALTH |-> "Health", FINANCE |-> "Finance", TRAVEL |-> "Travel",
     FOOD |-> "Food", Other |-> "Other"]

LocationType == [URBAN |-> "urban", SUBURBAN |-> "sub urban", RURAL |-> "rural"]

\* gender?.toLowerCase().trim(), then the switch
mapGender(gender) ==
    LET normalizedGender == trim(toLowerCase(gender))
    IN  IF normalizedGender \in {<<"m", "a", "l", "e">>, <<"m">>} THEN Gender.MALE
        ELSE IF normalizedGender \in {<<"f", "e", "m", "a", "l", "e">>, <<"f">>}
        THEN Gender.FEMALE
        ELSE Gender.Other

mapDeviceBrand(brand) ==
    LET normalizedBrand == trim(toLowerCase(brand))
    IN  IF normalizedBrand = <<"s", "a", "m", "s", "u", "n", "g">> THEN DeviceBrand.SAMSUNG
        ELSE IF normalizedBrand = <<"a", "p", "p", "l", "e">> THEN DeviceBrand.APPLE
        ELSE IF normalizedBrand = <<"h", "u", "a", "w", "e", "i">> THEN DeviceBrand.HUAWEI
        ELSE IF normalizedBrand = <<"x", "i", "a", "o", "m", "i">> THEN DeviceBrand.XIAOMI
        ELSE IF normalizedBrand = <<"o", "p", "p", "o">> THEN DeviceBrand.OPPO
        ELSE IF normalizedBrand = <<"v", "i", "v", "o">> THEN DeviceBrand.VIVO
        ELSE DeviceBrand.Other

mapDigitalInterest(interest) ==
    LET normalizedInterest == trim(toLowerCase(interest))
    IN  IF normalizedInterest
              = <<"s", "o", "c", "i", "a", "l", " ", "m", "e", "d", "i", "a">>
        THEN DigitalInterest.SOCIAL_MEDIA
        ELSE IF normalizedInterest = <<"g", "a", "m", "i", "n", "g">>
        THEN DigitalInterest.GAMING
        ELSE IF normalizedInterest = <<"s", "h", "o", "p", "p", "i", "n", "g">>
        THEN DigitalInterest.SHOPPING
        ELSE IF normalizedInterest = <<"n", "e", "w", "s">>
        THEN DigitalInterest.NEWS
        ELSE IF normalizedInterest
                  = <<"e", "n", "t", "e", "r", "t", "a", "i", "n", "m", "e", "n", "t">>
        THEN DigitalInterest.ENTERTAINMENT
        ELSE IF normalizedInterest = <<"e", "d", "u", "c", "a", "t", "i", "o", "n">>
        THEN DigitalInterest.EDUCATION
        ELSE IF normalizedInterest = <<"h", "e", "a", "l", "t", "h">>
        THEN DigitalInterest.HEALTH
        ELSE IF normalizedInterest = <<"f", "i", "n", "a", "n", "c", "e">>
        THEN DigitalInterest.FINANCE
        ELSE IF normalizedInterest = <<"t", "r", "a", "v", "e", "l">>
        THEN DigitalInterest.TRAVEL
        ELSE IF normalizedInterest = <<"f", "o", "o", "d">>
        THEN DigitalInterest.FOOD
        ELSE DigitalInterest.Other

\* the default of the switch is LocationType.URBAN
mapLocationType(type) ==
    LET normalizedType == trim(toLowerCase(type))
    IN  IF normalizedType = <<"u", "r", "b", "a", "n">> THEN LocationType.URBAN
        ELSE IF normalizedType \in {<<"s", "u", "b", " ", "u", "r", "b", "a", "n">>,
                                    <<"s", "u", "b", "u", "r", "b", "a", "n">>}
        THEN LocationType.SUBURBAN
        ELSE IF normalizedType = <<"r", "u", "r", "a", "l">> THEN LocationType.RURAL
        ELSE LocationType.URBAN

\* the customerData object built from a raw record
CustomerData(row) ==
    [number       |-> parseInt(row.number),
     locationName |-> trim(row.locationName),
     userName     |-> trim(row.userName),
     birthYear    |-> parseInt(StrOr(row.birthYear, row.age)),
     gender       |-> mapGender(row.gender),
     email        |-> trim(toLowerCase(row.email)),
     deviceBrand     |-> mapDeviceBrand(row.deviceBrand),
     digitalInterest |-> mapDigitalInterest(row.digitalInterest),
     locationType    |-> mapLocationType(row.locationType)]

\* RowErrors without the email check
RowErrorsNoEmailCheck(row, rowNumber) ==
    LET d == CustomerData(row)
    IN  (IF NumFalsy(d.number)
         THEN <<ImportError(rowNumber, "number", row.number, "Invalid number", -1)>>
         ELSE <<>>)
        \o
        (IF StrFalsy(d.locationName)
         THEN <<ImportError(rowNumber, "locationName", row.locationName,
                            "Location name required", -1)>>
         ELSE <<>>)
        \o
        (IF StrFalsy(d.userName)
         THEN <<ImportError(rowNumber, "userName", row.userName,
                            "User name required", -1)>>
         ELSE <<>>)
        \o
        (IF NumFalsy(d.birthYear) \/ d.birthYear.v < 1900 \/ d.birthYear.v > CurrentYear
         THEN <<ImportError(rowNumber, "birthYear", StrOr(row.birthYear, row.age),
                            "Invalid birth year", -1)>>
         ELSE <<>>)

\* the violations of the required-field checks, in the order of the checks
RowErrors(row, rowNumber) ==
    LET d == CustomerData(row)
    IN  (IF NumFalsy(d.number)
         THEN <<ImportError(rowNumber, "number", row.number, "Invalid number", -1)>>
         ELSE <<>>)
        \o
        (IF StrFalsy(d.locationName)
         THEN <<ImportError(rowNumber, "locationName", row.locationName,
                            "Location name required", -1)>>
         ELSE <<>>)
        \o
        (IF StrFalsy(d.userName)
         THEN <<ImportError(rowNumber, "userName", row.userName,
                            "User name required", -1)>>
         ELSE <<>>)
        \o
        (IF StrFalsy(d.email) \/ ~isValidEmail(d.email)
         THEN <<ImportError(rowNumber, "email", row.email, "Invalid email", -1)>>
         ELSE <<>>)
        \o
        (IF NumFalsy(d.birthYear) \/ d.birthYear.v < 1900 \/ d.birthYear.v > CurrentYear
         THEN <<ImportError(rowNumber, "birthYear", StrOr(row.birthYear, row.age),
                            "Invalid birth year", -1)>>
         ELSE <<>>)

\* a transformer that stops at the first violated check
transformCSVRowFirstError(row, rowNumber) ==
    LET errors == SubSeq(RowErrors(row, rowNumber), 1, 1)
    IN  IF errors = <<>>
        THEN [isValid |-> TRUE, data |-> <<CustomerData(row)>>, errors |-> errors]
        ELSE [isValid |-> FALSE, data |-> <<>>, errors |-> errors]

\* a transformer that returns the entity with an invalid result as well
transformCSVRowAlwaysData(row, rowNumber) ==
    LET errors == RowErrors(row, rowNumber)
    IN  [isValid |-> errors = <<>>, data |-> <<CustomerData(row)>>, errors |-> errors]

\* transformCSVRow(row, rowNumber): data is present exactly when isValid
transformCSVRow(row, rowNumber) ==
    LET errors == RowErrors(row, rowNumber)
    IN  IF errors = <<>>
        THEN [isValid |-> TRUE, data |-> <<CustomerData(row)>>, errors |-> errors]
        ELSE [isValid |-> FALSE, data |-> <<>>, errors |-> errors]

(***************************************************************************)
(* The raw records the sources deliver.                                    *)
(***************************************************************************)
RawRow(number, locationName, userName, email, birthYear, age) ==
    [number |-> number, locationName |-> locationName, userName |-> userName,
     email |-> email, birthYear |-> birthYear, age |-> age,
     gender |-> undefined, deviceBrand |-> undefined,
     digitalInterest |-> undefined, locationType |-> undefined]

\* the record r with its four category columns filled in
WithCategories(r, gender, deviceBrand, digitalInterest, locationType) ==
    [r EXCEPT !.gender = gender, !.deviceBrand = deviceBrand,
              !.digitalInterest = digitalInterest, !.locationType = locationType]

\* a valid record
RowGood ==
    RawRow(<<"7">>, <<"H", "Q">>, <<"A", "n", "n">>,
           <<"A", "@", "b", ".", "c">>, <<"1", "9", "9", "0">>, undefined)

\* a record with no email column: one violation
RowNoEmail ==
    RawRow(<<"8">>, <<"H", "Q">>, <<"B", "o">>, undefined,
           undefined, <<"2", "0", "0", "1">>)

\* a record with a zero identifier, a blank name and a year out of range:
\* three violations
RowBad ==
    RawRow(<<"0">>, <<"H", "Q">>, <<" ">>,
           <<"c", "@", "d", ".", "e">>, <<"1", "8", "9", "9">>, undefined)

SampleRows == {RowGood, RowNoEmail, RowBad}

(***************************************************************************)
(* State.                                                                  *)
(***************************************************************************)
VARIABLES
    nextId,            \* number of import ids generated so far
    activeImports,     \* the keys of the Map activeImports
    progress,          \* the CSVImportProgress object of each job
    batchSize,         \* processCSVStream: parameter batchSize
    batch,             \* processCSVStream: local batch
    rowNumber,         \* processCSVStream: local rowNumber
    processedBatches,  \* processCSVStream: local processedBatches
    pc,                \* where the coordinator of each job stands
    source,            \* history: the raw records the source has delivered
    writerCalls,       \* history: number of processBatch invocations
    sinkCalls,         \* history: the batches passed to bulkWrite, in order
    submitted,         \* history: the batches passed to processBatch, in order
    ret,               \* what the last call of the service returned
    host,              \* the process that hosts the service: up, stopping, down
    call               \* a call of transformCSVRow on its own: arguments and result

vars == <<nextId, activeImports, progress, batchSize, batch, rowNumber,
          processedBatches, pc, source, writerCalls, sinkCalls, submitted, ret,
          host, call>>

\* percentage is kept in units of 1/ASSUMED_TOTAL of a percent, so that
\* rowNumber / ASSUMED_TOTAL * 100 is exact
Percent(n) == n * ASSUMED_TOTAL

Min(a, b) == IF a <= b THEN a ELSE b

\* the estimate without its cap
EstimateUncapped(rn) == rn * 100

\* Math.min((rowNumber / ASSUMED_TOTAL) * 100, 99)
EstimatePercentage(rn) == Min(rn * 100, Percent(99))

\* the progress object importFromCSV builds
InitialProgress ==
    [totalProcessed |-> 0, successful |-> 0, failed |-> 0, currentBatch |-> 0,
     totalBatches |-> 0, percentage |-> 0, errors |-> <<>>,
     status |-> "processing"]

\* the entry of a job that has not been started
NoProgress == [InitialProgress EXCEPT !.status = "none"]

NoRet == [op |-> "none", id |-> 0, value |-> <<>>]

Ret(op, id, value) == [op |-> op, id |-> id, value |-> value]

\* a boolean as a returned value
Bool(b) == [bool |-> b]

\* the object getActiveImports builds: one entry per key of the map
RECURSIVE Entries(_, _)
Entries(S, p) ==
    IF S = {} THEN <<>>
    ELSE LET j == CHOOSE x \in S : \A y \in S : x <= y
         IN  <<[id |-> j, progress |-> p[j]]>> \o Entries(S \ {j}, p)

\* no call of transformCSVRow is examined on its own
NoCall == [row |-> RowGood, rowNumber |-> 0, result |-> <<>>]

\* the service as its constructor leaves it
InitService ==
    /\ nextId = 0
    /\ activeImports = {}
    /\ progress = [j \in JobIds |-> NoProgress]
    /\ batchSize = [j \in JobIds |-> 0]
    /\ batch = [j \in JobIds |-> <<>>]
    /\ rowNumber = [j \in JobIds |-> 0]
    /\ processedBatches = [j \in JobIds |-> 0]
    /\ pc = [j \in JobIds |-> "none"]
    /\ source = [j \in JobIds |-> <<>>]
    /\ writerCalls = [j \in JobIds |-> 0]
    /\ sinkCalls = [j \in JobIds |-> <<>>]
    /\ submitted = [j \in JobIds |-> <<>>]
    /\ ret = NoRet
    /\ host = "up"

Init ==
    /\ InitService
    /\ call = NoCall

RECURSIVE SumOver(_, _)
SumOver(f, S) ==
    IF S = {} THEN 0
    ELSE LET x == CHOOSE y \in S : TRUE IN f[x] + SumOver(f, S \ {x})

RowsRead == SumOver(rowNumber, JobIds)

\* the host process has not exited: timers, I/O completions and the requests
\* of connections still open are served
Alive == host # "down"

\* an import that starts the pipeline and forgets to register the job
importFromCSVUnregistered(bs) ==
    /\ Alive
    /\ nextId < MaxJobs
    /\ LET j == nextId + 1 IN
        /\ nextId' = j
        /\ activeImports' = activeImports
        /\ progress' = [progress EXCEPT ![j] = InitialProgress]
        /\ batchSize' = [batchSize EXCEPT ![j] = IF bs = 0 THEN BATCH_SIZE ELSE bs]
        /\ pc' = [pc EXCEPT ![j] = "reading"]
        /\ ret' = Ret("importFromCSV", j, <<InitialProgress>>)
    /\ UNCHANGED <<batch, rowNumber, processedBatches, source, writerCalls, submitted,
                   sinkCalls, host, call>>

(***************************************************************************)
(* importFromCSV: a new id, a fresh progress object registered under it,   *)
(* and processCSVStream started; the call returns before any record is     *)
(* read.  bs = 0 stands for options without batchSize.                     *)
(***************************************************************************)
importFromCSV(bs) ==
    /\ Alive
    /\ nextId < MaxJobs
    /\ LET j == nextId + 1 IN
        /\ nextId' = j
        /\ activeImports' = activeImports \cup {j}
        /\ progress' = [progress EXCEPT ![j] = InitialProgress]
        /\ batchSize' = [batchSize EXCEPT ![j] = IF bs = 0 THEN BATCH_SIZE ELSE bs]
        /\ pc' = [pc EXCEPT ![j] = "reading"]
        /\ ret' = Ret("importFromCSV", j, <<InitialProgress>>)
    /\ UNCHANGED <<batch, rowNumber, processedBatches, source, writerCalls, submitted,
                   sinkCalls, host, call>>

(***************************************************************************)
(* The pieces of processCSVStream and processBatch that change a progress  *)
(* object p.                                                               *)
(***************************************************************************)
\* a callback that keeps only the first error of an invalid row
RecordInvalidFirstError(p, errors) ==
    [p EXCEPT !.failed = @ + 1, !.errors = @ \o SubSeq(errors, 1, 1)]

\* Transform callback, invalid row: progress.failed++ and the row's errors
RecordInvalid(p, errors) ==
    [p EXCEPT !.failed = @ + 1, !.errors = @ \o errors]

\* a flush one row late
BatchFullStrict(b, bs) == Len(b) > bs

\* Transform callback: batch.length >= batchSize
BatchFull(b, bs) == Len(b) >= bs

\* processBatch, on entry: the 1-indexed batch number
WriterEnter(p, batchNumber) == [p EXCEPT !.currentBatch = batchNumber + 1]

\* a writer that takes every row of the batch as inserted
WriterSuccessAllInserted(p, n, k) ==
    [p EXCEPT !.successful = @ + n]

\* a writer that takes the rows not inserted with the wrong sign
WriterSuccessSignSlip(p, n, k) ==
    [p EXCEPT !.successful = @ + k, !.failed = @ + (k - n)]

\* processBatch, bulkWrite returned insertedCount = k for n rows
WriterSuccess(p, n, k) ==
    [p EXCEPT !.successful = @ + k, !.failed = @ + (n - k)]

\* processBatch, catch: the whole batch is counted failed, one batch-level
\* error, and the error is thrown again
WriterCatch(p, n, batchNumber) ==
    [p EXCEPT !.failed = @ + n,
              !.errors = Append(@, ImportError(-1, "", undefined, "Batch failed",
                                               batchNumber + 1))]

\* Transform callback, catch around processBatch
CallerCatch(p, n, pb) ==
    [p EXCEPT !.failed = @ + n,
              !.errors = Append(@, ImportError(-1, "", undefined, "Batch failed", pb))]

\* 'end' handler, catch around processBatch
FinalCatch(p, n) ==
    [p EXCEPT !.failed = @ + n,
              !.errors = Append(@, ImportError(-1, "", undefined,
                                               "Final batch failed", -1))]

\* Transform callback: progress.totalProcessed and progress.percentage
UpdateProgress(p, rn) ==
    [p EXCEPT !.totalProcessed = rn, !.percentage = EstimatePercentage(rn)]

\* a ceiling check that is off by one
TooManyErrorsOffByOne(p) == Len(p.errors) > MAX_ERRORS + 1

\* Transform callback: progress.errors.length > this.MAX_ERRORS
TooManyErrors(p) == Len(p.errors) > MAX_ERRORS

\* importFromCSV, the .catch of processCSVStream's promise
RejectHandler(p) ==
    [p EXCEPT !.status = "failed",
              !.errors = Append(@, ImportError(-1, "", undefined, "Import failed", -1))]

\* 'end' handler: finalize import
Finalize(p, pb) ==
    [p EXCEPT !.status = "completed", !.percentage = Percent(100),
              !.currentBatch = pb, !.totalBatches = pb]

\* the end of the Transform callback for record rn, from the progress update
\* on: callback() lets the stream deliver the next record, callback(error)
\* destroys the stream, whose 'error' event rejects the promise; the
\* rejection handler runs before any other request or I/O completion is
\* served, so the two are one step
AfterRecord(j, p, rn) ==
    LET p1 == UpdateProgress(p, rn)
    IN  IF TooManyErrors(p1)
        THEN /\ progress' = [progress EXCEPT ![j] = RejectHandler(p1)]
             /\ pc' = [pc EXCEPT ![j] = "failed"]
        ELSE /\ progress' = [progress EXCEPT ![j] = p1]
             /\ pc' = [pc EXCEPT ![j] = "reading"]

\* a callback that starts processBatch for a full batch and does not wait
\* for it: the next record is read while the write is pending
transformNoAwait(j, raw, rn, t) ==
    /\ LET b1 == IF t.isValid THEN batch[j] \o t.data ELSE batch[j]
           p1 == IF t.isValid THEN progress[j] ELSE RecordInvalid(progress[j], t.errors)
       IN
        /\ rowNumber' = [rowNumber EXCEPT ![j] = rn]
        /\ source' = [source EXCEPT ![j] = Append(@, raw)]
        /\ IF BatchFull(b1, batchSize[j])
           THEN /\ writerCalls' = [writerCalls EXCEPT ![j] = @ + 1]
                /\ submitted' = [submitted EXCEPT ![j] = Append(@, b1)]
                /\ IF j \in activeImports
                   THEN /\ batch' = [batch EXCEPT ![j] = <<>>]
                        /\ sinkCalls' = [sinkCalls EXCEPT ![j] = Append(@, b1)]
                        /\ processedBatches' = [processedBatches EXCEPT ![j] = @ + 1]
                        /\ AfterRecord(j, WriterEnter(p1, processedBatches[j]), rn)
                   ELSE /\ batch' = [batch EXCEPT ![j] = <<>>]
                        /\ processedBatches' = [processedBatches EXCEPT ![j] = @ + 1]
                        /\ AfterRecord(j, CallerCatch(p1, Len(b1), processedBatches[j]), rn)
                        /\ UNCHANGED sinkCalls
           ELSE /\ batch' = [batch EXCEPT ![j] = b1]
                /\ AfterRecord(j, p1, rn)
                /\ UNCHANGED <<processedBatches, writerCalls, submitted, sinkCalls>>
    /\ ret' = NoRet
    /\ UNCHANGED <<nextId, activeImports, batchSize, host, call>>

(***************************************************************************)
(* The Transform callback up to its first wait for I/O: the record is      *)
(* counted and transformed, a valid one joins the batch, an invalid one is *)
(* recorded; a full batch goes to processBatch, which waits for bulkWrite  *)
(* (pc "writing").  After cleanupImport processBatch finds no progress     *)
(* object and throws a TypeError before it reaches the sink, which the     *)
(* callback catches like a failed write.                                   *)
(***************************************************************************)
transform(j, raw, rn, t) ==
    /\ LET b1 == IF t.isValid THEN batch[j] \o t.data ELSE batch[j]
           p1 == IF t.isValid THEN progress[j] ELSE RecordInvalid(progress[j], t.errors)
       IN
        /\ rowNumber' = [rowNumber EXCEPT ![j] = rn]
        /\ source' = [source EXCEPT ![j] = Append(@, raw)]
        /\ IF BatchFull(b1, batchSize[j])
           THEN /\ writerCalls' = [writerCalls EXCEPT ![j] = @ + 1]
                /\ submitted' = [submitted EXCEPT ![j] = Append(@, b1)]
                /\ IF j \in activeImports
                   THEN /\ progress' = [progress EXCEPT
                                           ![j] = WriterEnter(p1, processedBatches[j])]
                        /\ batch' = [batch EXCEPT ![j] = b1]
                        /\ sinkCalls' = [sinkCalls EXCEPT ![j] = Append(@, b1)]
                        /\ pc' = [pc EXCEPT ![j] = "writing"]
                        /\ UNCHANGED processedBatches
                   ELSE /\ batch' = [batch EXCEPT ![j] = <<>>]
                        /\ processedBatches' = [processedBatches EXCEPT ![j] = @ + 1]
                        /\ AfterRecord(j, CallerCatch(p1, Len(b1), processedBatches[j]), rn)
                        /\ UNCHANGED sinkCalls
           ELSE /\ batch' = [batch EXCEPT ![j] = b1]
                /\ AfterRecord(j, p1, rn)
                /\ UNCHANGED <<processedBatches, writerCalls, submitted, sinkCalls>>
    /\ ret' = NoRet
    /\ UNCHANGED <<nextId, activeImports, batchSize, host, call>>

\* the next record of the source reaches a callback that does not wait
\* for processBatch
TransformRecordNoAwait(j, raw) ==
    /\ Alive
    /\ pc[j] = "reading"
    /\ transformNoAwait(j, raw, rowNumber[j] + 1,
                        transformCSVRow(raw, rowNumber[j] + 1))

\* the next record of the source reaches the Transform callback with its
\* row number; t is what transformCSVRow makes of it
TransformRecord(j, raw) ==
    /\ Alive
    /\ pc[j] = "reading"
    /\ transform(j, raw, rowNumber[j] + 1,
                 transformCSVRow(raw, rowNumber[j] + 1))

\* a write that returns to a buffer shared by all jobs and empties it
BatchWriteReturnsSharedBuffer(j, k) ==
    /\ Alive
    /\ pc[j] = "writing"
    /\ k \in 0..Len(batch[j])
    /\ batch' = [i \in JobIds |-> <<>>]
    /\ processedBatches' = [processedBatches EXCEPT ![j] = @ + 1]
    /\ AfterRecord(j, WriterSuccess(progress[j], Len(batch[j]), k), rowNumber[j])
    /\ ret' = NoRet
    /\ UNCHANGED <<nextId, activeImports, batchSize, rowNumber, source,
                   writerCalls, submitted, sinkCalls, host, call>>

\* a write that returns to a callback that forgets to empty the batch
BatchWriteReturnsKeepsBatch(j, k) ==
    /\ Alive
    /\ pc[j] = "writing"
    /\ k \in 0..Len(batch[j])
    /\ UNCHANGED batch
    /\ processedBatches' = [processedBatches EXCEPT ![j] = @ + 1]
    /\ AfterRecord(j, WriterSuccess(progress[j], Len(batch[j]), k), rowNumber[j])
    /\ ret' = NoRet
    /\ UNCHANGED <<nextId, activeImports, batchSize, rowNumber, source,
                   writerCalls, submitted, sinkCalls, host, call>>

\* bulkWrite of a full batch returns with insertedCount = k
BatchWriteReturns(j, k) ==
    /\ Alive
    /\ pc[j] = "writing"
    /\ k \in 0..Len(batch[j])
    /\ batch' = [batch EXCEPT ![j] = <<>>]
    /\ processedBatches' = [processedBatches EXCEPT ![j] = @ + 1]
    /\ AfterRecord(j, WriterSuccess(progress[j], Len(batch[j]), k), rowNumber[j])
    /\ ret' = NoRet
    /\ UNCHANGED <<nextId, activeImports, batchSize, rowNumber, source,
                   writerCalls, submitted, sinkCalls, host, call>>

\* bulkWrite of a full batch throws and the callback has no catch around
\* processBatch: the error reaches callback(error) and rejects the promise
BatchWriteThrowsEscapes(j) ==
    /\ Alive
    /\ pc[j] = "writing"
    /\ progress' = [progress EXCEPT
                       ![j] = RejectHandler(WriterCatch(progress[j], Len(batch[j]),
                                                        processedBatches[j]))]
    /\ pc' = [pc EXCEPT ![j] = "failed"]
    /\ ret' = NoRet
    /\ UNCHANGED <<nextId, activeImports, batchSize, batch, rowNumber,
                   processedBatches, source, writerCalls, submitted, sinkCalls, host, call>>

\* bulkWrite of a full batch throws: processBatch's catch, then the
\* callback's catch
BatchWriteThrows(j) ==
    /\ Alive
    /\ pc[j] = "writing"
    /\ batch' = [batch EXCEPT ![j] = <<>>]
    /\ processedBatches' = [processedBatches EXCEPT ![j] = @ + 1]
    /\ AfterRecord(j,
                   CallerCatch(WriterCatch(progress[j], Len(batch[j]),
                                           processedBatches[j]),
                               Len(batch[j]), processedBatches[j]),
                   rowNumber[j])
    /\ ret' = NoRet
    /\ UNCHANGED <<nextId, activeImports, batchSize, rowNumber, source,
                   writerCalls, submitted, sinkCalls, host, call>>

(***************************************************************************)
(* The 'end' handler: the source has delivered its last record and the     *)
(* callback of every record has returned (the stream runs one callback at  *)
(* a time and emits 'end' after the last one).  A remaining partial batch  *)
(* goes to processBatch (pc "finalWriting"), then the import is finalized. *)
(***************************************************************************)
EndOfStream(j) ==
    /\ Alive
    /\ pc[j] = "reading"
    /\ IF batch[j] = <<>>
       THEN /\ progress' = [progress EXCEPT
                               ![j] = Finalize(progress[j], processedBatches[j])]
            /\ pc' = [pc EXCEPT ![j] = "ended"]
            /\ UNCHANGED <<writerCalls, submitted, sinkCalls>>
       ELSE /\ writerCalls' = [writerCalls EXCEPT ![j] = @ + 1]
            /\ submitted' = [submitted EXCEPT ![j] = Append(@, batch[j])]
            /\ IF j \in activeImports
               THEN /\ progress' = [progress EXCEPT
                                       ![j] = WriterEnter(progress[j], processedBatches[j])]
                    /\ sinkCalls' = [sinkCalls EXCEPT ![j] = Append(@, batch[j])]
                    /\ pc' = [pc EXCEPT ![j] = "finalWriting"]
               ELSE /\ progress' = [progress EXCEPT
                                       ![j] = Finalize(FinalCatch(progress[j], Len(batch[j])),
                                                       processedBatches[j])]
                    /\ pc' = [pc EXCEPT ![j] = "ended"]
                    /\ UNCHANGED sinkCalls
    /\ ret' = NoRet
    /\ UNCHANGED <<nextId, activeImports, batchSize, batch, rowNumber,
                   processedBatches, source, host, call>>

\* bulkWrite of the final batch returns with insertedCount = k
FinalWriteReturns(j, k) ==
    /\ Alive
    /\ pc[j] = "finalWriting"
    /\ k \in 0..Len(batch[j])
    /\ processedBatches' = [processedBatches EXCEPT ![j] = @ + 1]
    /\ progress' = [progress EXCEPT
                       ![j] = Finalize(WriterSuccess(progress[j], Len(batch[j]), k),
                                       processedBatches[j] + 1)]
    /\ pc' = [pc EXCEPT ![j] = "ended"]
    /\ ret' = NoRet
    /\ UNCHANGED <<nextId, activeImports, batchSize, batch, rowNumber, source,
                   writerCalls, submitted, sinkCalls, host, call>>

\* bulkWrite of the final batch throws: processBatch's catch, then the
\* handler's catch; processedBatches is not advanced
FinalWriteThrows(j) ==
    /\ Alive
    /\ pc[j] = "finalWriting"
    /\ progress' = [progress EXCEPT
                       ![j] = Finalize(FinalCatch(WriterCatch(progress[j], Len(batch[j]),
                                                              processedBatches[j]),
                                                  Len(batch[j])),
                                       processedBatches[j])]
    /\ pc' = [pc EXCEPT ![j] = "ended"]
    /\ ret' = NoRet
    /\ UNCHANGED <<nextId, activeImports, batchSize, batch, rowNumber,
                   processedBatches, source, writerCalls, submitted, sinkCalls, host, call>>

(***************************************************************************)
(* The file stream or the CSV parser of job j emits 'error' (the file      *)
(* cannot be opened or read).  processCSVStream listens for 'error' on the *)
(* last stream of the pipeline only, and pipe() does not pass errors on,   *)
(* so the promise is not rejected and the progress object is not touched:  *)
(* the event has no listener, is thrown as an uncaught exception, and the  *)
(* handler of the application starts the shutdown of the process.  The     *)
(* Transform is neither ended nor destroyed: no further record and no      *)
(* 'end' reaches the coordinator (pc "errored").  The records still in the *)
(* buffers of the pipeline count as delivered before the error.            *)
(***************************************************************************)
SourceError(j) ==
    /\ Alive
    /\ pc[j] = "reading"
    /\ pc' = [pc EXCEPT ![j] = "errored"]
    /\ host' = IF host = "up" THEN "stopping" ELSE host
    /\ ret' = NoRet
    /\ UNCHANGED <<nextId, activeImports, progress, batchSize, batch, rowNumber,
                   processedBatches, source, writerCalls, submitted, sinkCalls,
                   call>>

\* gracefulShutdown: process.exit once the server has closed, or after the
\* forced-shutdown timeout; every job of the process ends where it stands
ProcessExit ==
    /\ host = "stopping"
    /\ host' = "down"
    /\ ret' = NoRet
    /\ UNCHANGED <<nextId, activeImports, progress, batchSize, batch, rowNumber,
                   processedBatches, pc, source, writerCalls, submitted, sinkCalls,
                   call>>

(***************************************************************************)
(* The registry calls.  Any id may be asked for, also one never generated. *)
(***************************************************************************)
\* a cancel that does not look at the status
CanCancelAnyStatus(j) == j \in activeImports

\* cancelImport: progress && progress.status === 'processing'
CanCancel(j) == j \in activeImports /\ progress[j].status = "processing"

cancelImport(j) ==
    /\ Alive
    /\ IF CanCancel(j)
       THEN /\ progress' = [progress EXCEPT ![j].status = "cancelled"]
            /\ ret' = Ret("cancelImport", j, <<Bool(TRUE)>>)
       ELSE /\ UNCHANGED progress
            /\ ret' = Ret("cancelImport", j, <<Bool(FALSE)>>)
    /\ UNCHANGED <<nextId, activeImports, batchSize, batch, rowNumber,
                   processedBatches, pc, source, writerCalls, submitted, sinkCalls, host, call>>

\* a lookup that answers from the job itself, whether registered or not
getImportProgressStale(j) ==
    /\ Alive
    /\ ret' = Ret("getImportProgress", j,
                  IF pc[j] # "none" THEN <<progress[j]>> ELSE <<>>)
    /\ UNCHANGED <<nextId, activeImports, progress, batchSize, batch, rowNumber,
                   processedBatches, pc, source, writerCalls, submitted, sinkCalls, host, call>>

\* getImportProgress: the progress object or null (the empty value)
getImportProgress(j) ==
    /\ Alive
    /\ ret' = Ret("getImportProgress", j,
                  IF j \in activeImports THEN <<progress[j]>> ELSE <<>>)
    /\ UNCHANGED <<nextId, activeImports, progress, batchSize, batch, rowNumber,
                   processedBatches, pc, source, writerCalls, submitted, sinkCalls, host, call>>

cleanupImport(j) ==
    /\ Alive
    /\ activeImports' = activeImports \ {j}
    /\ ret' = Ret("cleanupImport", j, <<>>)
    /\ UNCHANGED <<nextId, progress, batchSize, batch, rowNumber,
                   processedBatches, pc, source, writerCalls, submitted, sinkCalls, host, call>>

getActiveImports ==
    /\ Alive
    /\ ret' = Ret("getActiveImports", 0, Entries(activeImports, progress))
    /\ UNCHANGED <<nextId, activeImports, progress, batchSize, batch, rowNumber,
                   processedBatches, pc, source, writerCalls, submitted, sinkCalls, host, call>>

(***************************************************************************)
(* Spec: up to MaxJobs jobs run concurrently.                              *)
(***************************************************************************)
ReadRecordOf(j, raw) == RowsRead < MaxRowsAll /\ TransformRecord(j, raw)

Next ==
    \/ \E bs \in 0..MaxBatchSize : importFromCSV(bs)
    \/ \E j \in JobIds, raw \in SampleRows : ReadRecordOf(j, raw)
    \/ \E j \in JobIds : \E k \in 0..Len(batch[j]) : BatchWriteReturns(j, k)
    \/ \E j \in JobIds : BatchWriteThrows(j)
    \/ \E j \in JobIds : EndOfStream(j)
    \/ \E j \in JobIds : \E k \in 0..Len(batch[j]) : FinalWriteReturns(j, k)
    \/ \E j \in JobIds : FinalWriteThrows(j)
    \/ \E j \in JobIds : SourceError(j)
    \/ ProcessExit
    \/ \E j \in JobIds : cancelImport(j)
    \/ \E j \in JobIds : getImportProgress(j)
    \/ \E j \in JobIds : cleanupImport(j)
    \/ getActiveImports

Spec == Init /\ [][Next]_vars

(***************************************************************************)
(* SpecJob: the life of one job, the first one started, with a longer      *)
(* source; the registry is still asked about every id of JobIds, the ids   *)
(* never generated included.                                               *)
(***************************************************************************)
StartJob(bs) == nextId = 0 /\ importFromCSV(bs)

ReadRecord(raw) == rowNumber[1] < MaxRows /\ TransformRecord(1, raw)

NextJob ==
    \/ \E bs \in 0..MaxBatchSize : StartJob(bs)
    \/ \E raw \in SampleRows : ReadRecord(raw)
    \/ \E k \in 0..Len(batch[1]) : BatchWriteReturns(1, k)
    \/ BatchWriteThrows(1)
    \/ EndOfStream(1)
    \/ \E k \in 0..Len(batch[1]) : FinalWriteReturns(1, k)
    \/ FinalWriteThrows(1)
    \/ SourceError(1)
    \/ ProcessExit
    \/ \E j \in JobIds : cancelImport(j)
    \/ \E j \in JobIds : getImportProgress(j)
    \/ \E j \in JobIds : cleanupImport(j)
    \/ getActiveImports

SpecJob == Init /\ [][NextJob]_vars

(***************************************************************************)
(* SpecJobFair: SpecJob with a source that, after finitely many records,   *)
(* reports its end or an error, a sink whose calls all return or throw,    *)
(* and a shutdown that ends in the exit of the process.                    *)
(***************************************************************************)
SourceSignals == EndOfStream(1) \/ SourceError(1)

WriteSettles ==
    \/ \E k \in 0..Len(batch[1]) : BatchWriteReturns(1, k)
    \/ BatchWriteThrows(1)

FinalWriteSettles ==
    \/ \E k \in 0..Len(batch[1]) : FinalWriteReturns(1, k)
    \/ FinalWriteThrows(1)

SpecJobFair ==
    /\ SpecJob
    /\ WF_vars(SourceSignals)
    /\ WF_vars(WriteSettles)
    /\ WF_vars(FinalWriteSettles)
    /\ WF_vars(ProcessExit)

(***************************************************************************)
(* SpecPair: the first two jobs side by side, sharing the MaxRowsAll       *)
(* records of Spec, each valid or with three violations, and with the      *)
(* calls that change a job or the registry.                                *)
(***************************************************************************)
Pair == {1, 2}

PairRows == {RowGood, RowBad}

StartOfPair(bs) == nextId + 1 \in Pair /\ importFromCSV(bs)

NextPair ==
    \/ \E bs \in 0..MaxBatchSize : StartOfPair(bs)
    \/ \E j \in Pair, raw \in PairRows : ReadRecordOf(j, raw)
    \/ \E j \in Pair : \E k \in 0..Len(batch[j]) : BatchWriteReturns(j, k)
    \/ \E j \in Pair : BatchWriteThrows(j)
    \/ \E j \in Pair : EndOfStream(j)
    \/ \E j \in Pair : \E k \in 0..Len(batch[j]) : FinalWriteReturns(j, k)
    \/ \E j \in Pair : FinalWriteThrows(j)
    \/ \E j \in Pair : SourceError(j)
    \/ ProcessExit
    \/ \E j \in Pair : cancelImport(j)
    \/ \E j \in Pair : cleanupImport(j)

SpecPair == Init /\ [][NextPair]_vars

(***************************************************************************)
(* Properties.                                                             *)
(***************************************************************************)
Terminal == {"completed", "failed", "cancelled"}

Last(q) == q[Len(q)]

\* C1: the status of a job only moves from processing to completed, failed
\* or cancelled, and a status that is completed, failed or cancelled never
\* changes again (so a job cancelled with success stays cancelled).
\* Refuted: the 'end' handler sets completed whatever the status is.
C1_StatusOnlyForward ==
    [][\A j \in JobIds :
          /\ progress[j].status = "processing"
                => progress'[j].status \in {"processing"} \cup Terminal
          /\ progress[j].status \in Terminal
                => progress'[j].status = progress[j].status]_vars

\* C2: once a job is cancelled and no batch write of it is in flight, no
\* further record is transformed, no further batch goes to the writer or
\* the sink, and totalProcessed, successful and failed keep their values.
\* Refuted: the Transform callback never reads the status.
C2_CancelStopsCoordinator ==
    [][\A j \in JobIds :
          (progress[j].status = "cancelled" /\ pc[j] = "reading")
             => /\ rowNumber'[j] = rowNumber[j]
                /\ writerCalls'[j] = writerCalls[j]
                /\ sinkCalls'[j] = sinkCalls[j]
                /\ progress'[j].totalProcessed = progress[j].totalProcessed
                /\ progress'[j].successful = progress[j].successful
                /\ progress'[j].failed = progress[j].failed]_vars

\* C3: cancelImport(j) returns true exactly when j is in the registry with
\* status processing, and then only sets that job's status to cancelled;
\* otherwise it returns false and changes no progress object; it never
\* changes the registry.
C3_CancelContract ==
    [][\A j \in JobIds :
          (ret'.op = "cancelImport" /\ ret'.id = j)
             => LET ok == j \in activeImports /\ progress[j].status = "processing"
                IN  /\ ret'.value = <<Bool(ok)>>
                    /\ ok => progress' = [progress EXCEPT ![j].status = "cancelled"]
                    /\ ~ok => progress' = progress
                    /\ activeImports' = activeImports]_vars

\* C3 witness: a second cancel of a registered job already cancelled by a
\* first one has returned false
C3_Witness ==
    /\ ret.op = "cancelImport" /\ ret.id = 1 /\ ret.value = <<Bool(FALSE)>>
    /\ 1 \in activeImports
    /\ progress[1].status = "cancelled"

\* no valid row of job j waits in the buffer or in a batch write in flight
Accounted(j) ==
    \/ pc[j] = "ended"
    \/ pc[j] \in {"reading", "failed"} /\ batch[j] = <<>>

\* C4: whenever no valid row of a job waits in the buffer or in a batch
\* write in flight, successful + failed = totalProcessed.
\* Refuted: a throwing batch write is counted failed twice.
C4_CountersAddUp ==
    \A j \in JobIds :
        Accounted(j)
           => progress[j].successful + progress[j].failed = progress[j].totalProcessed

\* C5: no job is completed while it holds more error records than the
\* ceiling.
\* Refuted: the 'end' handler does not look at the ceiling after the write
\* of the final batch.
C5_NeverCompletedAboveCeiling ==
    \A j \in JobIds :
        progress[j].status = "completed" => Len(progress[j].errors) <= MAX_ERRORS

\* C6: once the error records of a job exceed the ceiling, no further record
\* is read and no batch is passed to the writer or the sink again, so the
\* rows buffered at the breach are never submitted.
C6_BreachIsHardStop ==
    [][\A j \in JobIds :
          Len(progress[j].errors) > MAX_ERRORS
             => /\ pc[j] \in {"failed", "ended"} /\ pc'[j] = pc[j]
                /\ rowNumber'[j] = rowNumber[j]
                /\ source'[j] = source[j]
                /\ batch'[j] = batch[j]
                /\ writerCalls'[j] = writerCalls[j]
                /\ sinkCalls'[j] = sinkCalls[j]]_vars

\* C6 witness: a job stopped by the ceiling with a valid row left in its
\* buffer, of which the registry has since been asked
C6_Witness ==
    /\ pc[1] = "failed"
    /\ Len(progress[1].errors) > MAX_ERRORS
    /\ batch[1] # <<>>
    /\ sinkCalls[1] = <<>>
    /\ ret.op = "getImportProgress"

PercentageOK(p) ==
    /\ p.status = "processing" => (0 <= p.percentage /\ p.percentage <= Percent(99))
    /\ p.percentage = Percent(100) => p.status = "completed"

\* C7: the percentage of a job never decreases, lies in [0, 99] while the
\* status is processing, and is 100 only when the status is completed.
C7_Percentage ==
    [][\A j \in JobIds :
          /\ progress'[j].percentage >= progress[j].percentage
          /\ PercentageOK(progress[j])
          /\ PercentageOK(progress'[j])]_vars

\* C7 witness: the estimate has reached its cap of 99 while the job is
\* still processing
C7_Witness ==
    /\ progress[1].status = "processing"
    /\ progress[1].percentage = Percent(99)
    /\ rowNumber[1] * 100 > Percent(99)

Ceil(m, n) == (m + n - 1) \div n

\* the Row Transformer reports at least one violation for the raw record
Violates(raw) == transformCSVRow(raw, 1).errors # <<>>

ValidCount(q) == Cardinality({i \in 1..Len(q) : ~Violates(q[i])})

RequiredOK(e) ==
    /\ ~e.number.nan /\ e.number.v # 0
    /\ e.locationName # undefined /\ e.locationName # <<>>
    /\ e.userName # undefined /\ e.userName # <<>>
    /\ e.email # undefined /\ isValidEmail(e.email)
    /\ ~e.birthYear.nan /\ e.birthYear.v >= 1900 /\ e.birthYear.v <= CurrentYear

AllBufferedOK(j) ==
    /\ \A i \in 1..Len(batch[j]) : RequiredOK(batch[j][i])
    /\ \A c \in 1..Len(sinkCalls[j]) :
          \A i \in 1..Len(sinkCalls[j][c]) : RequiredOK(sinkCalls[j][c][i])

\* C9: the step that handles a record with a required-field violation adds
\* nothing to the buffer and passes nothing to the sink, and every entity in
\* the buffer or in a batch passed to the sink passes all required-field
\* checks.
C9_InvalidRowNeverBatched ==
    [][\A j \in JobIds :
          /\ (rowNumber'[j] = rowNumber[j] + 1 /\ Violates(Last(source'[j])))
                => /\ batch'[j] = batch[j]
                   /\ sinkCalls'[j] = sinkCalls[j]
          /\ AllBufferedOK(j)']_vars

\* C9 witness: an invalid record was handled between two valid ones, and
\* the two valid ones went to the sink as one batch
C9_Witness ==
    /\ Len(source[1]) = 3
    /\ ~Violates(source[1][1]) /\ Violates(source[1][2]) /\ ~Violates(source[1][3])
    /\ Len(sinkCalls[1]) = 1
    /\ Len(sinkCalls[1][1]) = 2

WriteThrew(j) ==
    /\ pc[j] \in {"writing", "finalWriting"}
    /\ progress'[j].errors # progress[j].errors

\* C11: when the write of a batch of n rows throws, for a full batch or the
\* final one, failed grows by exactly n, successful does not change, and
\* the batch is not handed to the writer or the sink again.
\* Refuted: processBatch counts the batch failed and rethrows, and the
\* catch of its caller counts the same batch failed once more.
C11_ThrowCountsBatchOnce ==
    [][\A j \in JobIds :
          WriteThrew(j)
             => /\ progress'[j].failed = progress[j].failed + Len(batch[j])
                /\ progress'[j].successful = progress[j].successful
                /\ writerCalls'[j] = writerCalls[j]
                /\ sinkCalls'[j] = sinkCalls[j]
                /\ batch'[j] = <<>>]_vars

\* the records of a list of errors that report a batch, not a row or the job
RECURSIVE BatchErrors(_)
BatchErrors(errors) ==
    IF errors = <<>> THEN <<>>
    ELSE LET e == Head(errors)
         IN  (IF e.row = -1 /\ e.error \in {"Batch failed", "Final batch failed"}
              THEN <<e>> ELSE <<>>) \o BatchErrors(Tail(errors))

\* C12: when the write of a batch throws, exactly one error record is
\* appended for that batch, with row = -1.
\* Refuted: processBatch appends one and the catch of its caller appends
\* another for the same batch.
C12_ThrowAppendsOneRecord ==
    [][\A j \in JobIds :
          WriteThrew(j)
             => Len(BatchErrors(progress'[j].errors))
                   = Len(BatchErrors(progress[j].errors)) + 1]_vars

\* C13: at a completed job currentBatch and totalBatches are equal and both
\* are the number of times a batch was handed to processBatch, the final
\* partial batch included, whether its write returned or threw.
\* Refuted: the 'end' handler advances processedBatches only when the write
\* of the final batch returns, so a final batch whose write throws is not
\* counted.
C13_BatchCountAtCompletion ==
    \A j \in JobIds :
        progress[j].status = "completed"
           => /\ progress[j].currentBatch = progress[j].totalBatches
              /\ progress[j].totalBatches = writerCalls[j]

\* the step in which the source of job j reports its end
SourceEnds(j) == pc[j] = "reading" /\ pc'[j] \in {"finalWriting", "ended"}

\* C14: when the source ends with rows in the buffer, exactly one more write
\* is issued to the sink, of exactly the buffered rows, and the job is
\* completed only in the step that adds the outcome of that write to
\* successful and failed; when the source ends with an empty buffer the job
\* is completed without a write.
\* Refuted: after cleanupImport the final batch never reaches the sink
\* (see C29): processBatch throws on the missing progress object, the rows
\* are counted failed and the job is completed.
C14_FinalBatchWritten ==
    [][\A j \in JobIds :
          /\ (SourceEnds(j) /\ batch[j] # <<>>)
                => /\ sinkCalls'[j] = Append(sinkCalls[j], batch[j])
                   /\ writerCalls'[j] = writerCalls[j] + 1
                   /\ pc'[j] = "finalWriting"
                   /\ progress'[j].status = progress[j].status
          /\ (SourceEnds(j) /\ batch[j] = <<>>)
                => /\ sinkCalls'[j] = sinkCalls[j]
                   /\ writerCalls'[j] = writerCalls[j]
                   /\ progress'[j].status = "completed"
          /\ (pc[j] = "finalWriting" /\ pc'[j] # pc[j])
                => /\ progress'[j].status = "completed"
                   /\ progress'[j].successful + progress'[j].failed
                         >= progress[j].successful + progress[j].failed + Len(batch[j])
          /\ pc[j] \in {"finalWriting", "ended"}
                => /\ sinkCalls'[j] = sinkCalls[j]
                   /\ writerCalls'[j] = writerCalls[j]
          /\ pc[j] = "ended"
                => /\ progress'[j].successful = progress[j].successful
                   /\ progress'[j].failed = progress[j].failed]_vars

\* the step in which the source or the record stream of job j signals an
\* error
SourceFails(j) == pc[j] # "errored" /\ pc'[j] = "errored"

\* C15: an error signalled by the source or the record stream of a job that
\* is processing makes that job failed and appends one job-level error
\* record with row = -1; the process that hosts the service stays up and
\* the progress of the other jobs is not touched.
\* Refuted: no 'error' listener sits on the file stream or the parser, so
\* the job stays processing and the uncaught exception shuts the host down.
C15_SourceErrorContained ==
    [][\A j \in JobIds :
          SourceFails(j)
             => /\ progress[j].status = "processing"
                   => /\ progress'[j].status = "failed"
                      /\ Len(progress'[j].errors) = Len(progress[j].errors) + 1
                      /\ Last(progress'[j].errors).row = -1
                /\ host' = host
                /\ \A i \in JobIds \ {j} : progress'[i] = progress[i]]_vars

\* C16: importFromCSV returns the id and the progress object of a job that
\* is new to the registry and registered from then on, with status
\* processing, every counter and the percentage 0 and no error; when it
\* returns no record of the source has been read, buffered or written, and
\* the coordinator stands before its first record.
C16_StartReturnsBeforeProcessing ==
    [][ret'.op = "importFromCSV"
          => LET j == ret'.id
             IN  /\ pc[j] = "none" /\ j \notin activeImports
                 /\ j \in activeImports'
                 /\ ret'.value = <<progress'[j]>>
                 /\ progress'[j].status = "processing"
                 /\ progress'[j].totalProcessed = 0
                 /\ progress'[j].successful = 0
                 /\ progress'[j].failed = 0
                 /\ progress'[j].currentBatch = 0
                 /\ progress'[j].totalBatches = 0
                 /\ progress'[j].percentage = 0
                 /\ progress'[j].errors = <<>>
                 /\ pc'[j] = "reading"
                 /\ rowNumber'[j] = 0 /\ source'[j] = <<>> /\ batch'[j] = <<>>
                 /\ writerCalls'[j] = 0 /\ sinkCalls'[j] = <<>>]_vars

\* C16 witness: importFromCSV has just returned the first job, registered
\* and processing, with nothing read
C16_Witness ==
    /\ ret.op = "importFromCSV" /\ ret.id = 1
    /\ 1 \in activeImports
    /\ progress[1].status = "processing"
    /\ rowNumber[1] = 0

\* C17: the registry holds exactly the ids that importFromCSV has generated
\* and cleanupImport has not been called for since: it changes only when
\* importFromCSV adds an id never generated before or cleanupImport removes
\* the id it is called for, whatever the status of the job and whether or
\* not its coordinator still runs; getImportProgress answers with the
\* progress object of a registered id and with null for any other, and
\* getActiveImports lists the registered ids and no other.
C17_RegistryMembership ==
    [][/\ activeImports' \subseteq 1..nextId'
       /\ activeImports' # activeImports
             => \/ /\ ret'.op = "importFromCSV"
                   /\ ret'.id > nextId
                   /\ activeImports' = activeImports \cup {ret'.id}
                \/ /\ ret'.op = "cleanupImport"
                   /\ activeImports' = activeImports \ {ret'.id}
       /\ ret'.op = "importFromCSV" => ret'.id \in activeImports'
       /\ ret'.op = "cleanupImport" => ret'.id \notin activeImports'
       /\ ret'.op = "getImportProgress"
             => ret'.value = IF ret'.id \in activeImports
                             THEN <<progress[ret'.id]>> ELSE <<>>
       /\ ret'.op = "getActiveImports"
             => /\ {ret'.value[i].id : i \in 1..Len(ret'.value)} = activeImports
                /\ \A i \in 1..Len(ret'.value) :
                      ret'.value[i].progress = progress[ret'.value[i].id]]_vars

\* C17 witness: the first job was removed from the registry while its
\* coordinator went on to complete it, and getImportProgress has answered
\* null for it
C17_Witness ==
    /\ ret.op = "getImportProgress" /\ ret.id = 1 /\ ret.value = <<>>
    /\ 1 \notin activeImports
    /\ pc[1] = "ended"
    /\ progress[1].status = "completed"
    /\ rowNumber[1] >= 1

\* a batch write of job j is pending
WritePending(j) == pc[j] \in {"writing", "finalWriting"}

\* C18: within a job the records are numbered and transformed one at a time
\* in the order of the source, a valid one joining the end of the buffer;
\* a batch is handed to the sink as the whole buffer, and until that write
\* has returned or thrown no record is read, nothing is added to the buffer
\* and no other batch is handed to the writer or the sink, so at most one
\* write is pending and batch k is dispatched before batch k+1 gets a row.
C18_InOrderOneWriteInFlight ==
    [][\A j \in JobIds :
          /\ WritePending(j)
                => /\ rowNumber'[j] = rowNumber[j]
                   /\ source'[j] = source[j]
                   /\ writerCalls'[j] = writerCalls[j]
                   /\ sinkCalls'[j] = sinkCalls[j]
                   /\ batch'[j] \in {batch[j], <<>>}
          /\ rowNumber'[j] = Len(source'[j])
          /\ rowNumber'[j] # rowNumber[j]
                => LET t == transformCSVRow(Last(source'[j]), rowNumber'[j])
                   IN  /\ rowNumber'[j] = rowNumber[j] + 1
                       /\ source'[j] = Append(source[j], Last(source'[j]))
                       /\ t.isValid
                             => batch'[j] \in {batch[j] \o t.data, <<>>}
                       /\ ~t.isValid
                             => /\ batch'[j] = batch[j]
                                /\ \E i \in 1..Len(progress'[j].errors) :
                                      progress'[j].errors[i].row = rowNumber'[j]
          /\ sinkCalls'[j] # sinkCalls[j]
                => /\ sinkCalls'[j] = Append(sinkCalls[j], batch'[j])
                   /\ pc'[j] \in {"writing", "finalWriting"}
          /\ pc'[j] = "reading" => writerCalls'[j] = processedBatches'[j]
          /\ pc'[j] = "writing" => writerCalls'[j] = processedBatches'[j] + 1]_vars

\* C18 witness: the write of the second batch is pending, the first batch
\* holds the first valid rows of the source and the second the next ones
C18_Witness ==
    /\ pc[1] = "writing"
    /\ Len(sinkCalls[1]) = 2
    /\ batch[1] = sinkCalls[1][2]
    /\ rowNumber[1] >= 3
    /\ processedBatches[1] = 1

\* a step taken for job a: its coordinator moves, or the service is called
\* to start, cancel or remove it
StepFor(a) ==
    \/ pc'[a] # pc[a]
    \/ rowNumber'[a] # rowNumber[a]
    \/ ret'.op \in {"importFromCSV", "cancelImport", "cleanupImport"} /\ ret'.id = a

\* C19: a step taken for one job (a record read, a batch write returning or
\* throwing, the end of the source, a failure, a cancel) leaves the progress
\* object and the batch buffer of every other job as they were.
C19_JobsDoNotInterfere ==
    [][\A a \in JobIds :
          StepFor(a)
             => \A b \in JobIds \ {a} :
                   /\ progress'[b] = progress[b]
                   /\ batch'[b] = batch[b]]_vars

\* C19 witness: the first job has written a row and is completed while the
\* second, still processing, holds a row in its buffer
C19_Witness ==
    /\ pc[1] = "ended" /\ progress[1].successful >= 1
    /\ pc[2] = "reading" /\ batch[2] # <<>>
    /\ progress[2].status = "processing"

\* C20: a job that was started reaches the status completed, failed or
\* cancelled, whenever its source reports its end or an error after
\* finitely many records and every call of the sink returns or throws.
\* Refuted: an error of the source never reaches the job (see C15); its
\* status stays processing for as long as the process lives.
C20_EventuallyTerminal ==
    \A j \in JobIds : (pc[j] # "none") ~> (progress[j].status \in Terminal)

\* the three counters of a progress object
Counters(p) == <<p.totalProcessed, p.successful, p.failed>>

\* C21: totalProcessed, successful and failed of a job never decrease; they
\* change only in a step of the coordinator of that job (a record read, a
\* batch write returning or throwing, the end of the source), never in a
\* getImportProgress, getActiveImports, cancelImport or cleanupImport call
\* or in a step of another job.
C21_CountersMonotone ==
    [][\A j \in JobIds :
          /\ progress'[j].totalProcessed >= progress[j].totalProcessed
          /\ progress'[j].successful >= progress[j].successful
          /\ progress'[j].failed >= progress[j].failed
          /\ Counters(progress'[j]) # Counters(progress[j])
                => /\ ret'.op = "none"
                   /\ pc[j] \in {"reading", "writing", "finalWriting"}
                   /\ pc'[j] # pc[j] \/ rowNumber'[j] # rowNumber[j]
                   /\ \A i \in JobIds \ {j} :
                         Counters(progress'[i]) = Counters(progress[i])]_vars

\* C21 witness: a batch write has left rows inserted and rows not inserted,
\* and the registry has been asked for the job afterwards
C21_Witness ==
    /\ ret.op = "getImportProgress" /\ ret.id = 1
    /\ progress[1].successful >= 1
    /\ progress[1].failed >= 1
    /\ progress[1].totalProcessed >= 2

\* the entities of the valid records of a source, in the order of the source
RECURSIVE Entities(_)
Entities(q) ==
    IF q = <<>> THEN <<>>
    ELSE Entities(SubSeq(q, 1, Len(q) - 1)) \o transformCSVRow(Last(q), Len(q)).data

\* a sequence cut into consecutive groups of n, the last one of 1..n
RECURSIVE Chunks(_, _)
Chunks(rows, n) ==
    IF rows = <<>> THEN <<>>
    ELSE IF Len(rows) <= n THEN <<rows>>
    ELSE <<SubSeq(rows, 1, n)>> \o Chunks(SubSeq(rows, n + 1, Len(rows)), n)

C23_ReturnCountsInserted ==
    [][\A j \in JobIds : \A k \in 0..MaxRows :
          BatchWriteReturns(j, k) \/ FinalWriteReturns(j, k)
             => /\ progress'[j].successful = progress[j].successful + k
                /\ progress'[j].failed = progress[j].failed + (Len(batch[j]) - k)
                /\ progress'[j].errors = progress[j].errors]_vars

\* C23 witness: the write of a batch of two rows has returned with one row
\* inserted
C23_Witness ==
    /\ batchSize[1] = 2
    /\ processedBatches[1] = 1
    /\ Len(sinkCalls[1]) = 1
    /\ progress[1].successful = 1
    /\ progress[1].failed = 1
    /\ progress[1].errors = <<>>

\* what transformCSVRow made of the record read in this step
ReadResult(j) == transformCSVRow(Last(source'[j]), rowNumber'[j])

\* a step in which the Transform callback of job j takes a record that
\* transformCSVRow rejects
InvalidRowRead(j) ==
    /\ pc[j] = "reading"
    /\ rowNumber'[j] = rowNumber[j] + 1
    /\ ~ReadResult(j).isValid

\* C24 as stated: each invalid row adds exactly 1 to failed and appends
\* exactly the transformer's error records for the row, in order, leaves
\* successful and the batch buffer as they are, and the job then continues
\* with the next record.
\* Refuted: when the row's errors take the list over MAX_ERRORS the job
\* does not continue; it fails and a job-level record is appended as well.
C24_InvalidRowAlwaysContinues ==
    [][\A j \in JobIds :
          InvalidRowRead(j)
             => /\ progress'[j].failed = progress[j].failed + 1
                /\ progress'[j].errors = progress[j].errors \o ReadResult(j).errors
                /\ progress'[j].successful = progress[j].successful
                /\ batch'[j] = batch[j]
                /\ pc'[j] = "reading"]_vars

\* C24 amended: each invalid row adds exactly 1 to failed and appends
\* exactly the transformer's error records for the row, in order, and
\* leaves successful and the batch buffer as they are; the job then
\* continues with the next record unless the list now holds more than
\* MAX_ERRORS records, in which case the job fails and one job-level record
\* follows the row's records.
C24_InvalidRowRecorded ==
    [][\A j \in JobIds :
          InvalidRowRead(j)
             => /\ progress'[j].failed = progress[j].failed + 1
                /\ progress'[j].successful = progress[j].successful
                /\ batch'[j] = batch[j]
                /\ IF Len(progress[j].errors) + Len(ReadResult(j).errors) > MAX_ERRORS
                   THEN /\ progress'[j].errors
                              = Append(progress[j].errors \o ReadResult(j).errors,
                                       ImportError(-1, "", undefined, "Import failed", -1))
                        /\ progress'[j].status = "failed"
                        /\ pc'[j] = "failed"
                   ELSE /\ progress'[j].errors
                              = progress[j].errors \o ReadResult(j).errors
                        /\ pc'[j] = "reading"]_vars

\* C24 witness: the second record had no email; its one error is recorded,
\* the valid first record still waits in the buffer and the job reads on
C24_Witness ==
    /\ pc[1] = "reading"
    /\ source[1] = <<RowGood, RowNoEmail>>
    /\ progress[1].failed = 1
    /\ progress[1].successful = 0
    /\ progress[1].errors = transformCSVRow(RowNoEmail, 2).errors
    /\ Len(batch[1]) = 1

(***************************************************************************)
(* transformCSVRow on its own: the call is made once on a raw record and a *)
(* row number drawn from the sets below; the service is not touched.       *)
(***************************************************************************)
NumberInputs ==
    {undefined, <<>>, <<"7">>, <<"0">>, <<"-", "5">>, <<"1", ".", "5">>,
     <<"1", "2", "a", "b">>, <<"a", "b", "c">>, <<" ", "4", "2">>}

LocationNameInputs == {<<"H", "Q">>, <<" ">>, undefined}

UserNameInputs == {<<"A", "n", "n">>, <<>>}

EmailInputs == {<<"A", "@", "b", ".", "c">>, <<"a", "@", "b">>, undefined}

\* the columns birthYear and age
YearInputs ==
    {<<<<"1", "9", "9", "0">>, undefined>>, <<<<"1", "8", "9", "9">>, undefined>>,
     <<<<"1", "9", "0", "0">>, undefined>>, <<<<"2", "0", "2", "6">>, undefined>>,
     <<<<"2", "0", "2", "7">>, undefined>>, <<undefined, <<"2", "0", "0", "1">>>>,
     <<<<>>, <<"3", "5">>>>, <<undefined, undefined>>}

GenderInputs == {undefined, <<"M", "a", "l", "e">>, <<" ", "F", " ">>, <<"x">>}

DeviceBrandInputs ==
    {undefined, <<"A", "p", "p", "l", "e">>, <<"N", "o", "k", "i", "a">>}

DigitalInterestInputs ==
    {undefined, <<"S", "o", "c", "i", "a", "l", " ", "M", "e", "d", "i", "a">>,
     <<"c", "h", "e", "s", "s">>}

LocationTypeInputs ==
    {undefined, <<"S", "u", "b", "u", "r", "b", "a", "n">>,
     <<"R", "U", "R", "A", "L">>, <<"h", "i", "l", "l">>}

RowInputs ==
    {RawRow(n, l, u, e, y[1], y[2]) :
        n \in NumberInputs, l \in LocationNameInputs, u \in UserNameInputs,
        e \in EmailInputs, y \in YearInputs}
    \cup
    {WithCategories(r, g, b, i, t) :
        r \in {RowGood, RowBad}, g \in GenderInputs, b \in DeviceBrandInputs,
        i \in DigitalInterestInputs, t \in LocationTypeInputs}

RowNumbers == {1, 3}

InitRow ==
    /\ InitService
    /\ call \in {[row |-> r, rowNumber |-> n, result |-> <<>>] :
                    r \in RowInputs, n \in RowNumbers}

\* the call returns
CallTransformCSVRow ==
    /\ call.result = <<>>
    /\ call' = [call EXCEPT !.result = <<transformCSVRow(call.row, call.rowNumber)>>]
    /\ UNCHANGED <<nextId, activeImports, progress, batchSize, batch, rowNumber,
                   processedBatches, pc, source, writerCalls, sinkCalls, submitted,
                   ret, host>>

NextRow == CallTransformCSVRow

SpecRow == InitRow /\ [][NextRow]_vars

\* the call has returned
Returned == call.result # <<>>

\* what the call returned
Result == call.result[1]

\* C25: for every raw record the result of transformCSVRow is either valid,
\* with an entity and an empty error list, or invalid, with no entity and a
\* non-empty error list.
C25_ValidXorErrors ==
    Returned
       => \/ /\ Result.isValid
             /\ Len(Result.data) = 1
             /\ Result.errors = <<>>
          \/ /\ ~Result.isValid
             /\ Result.data = <<>>
             /\ Result.errors # <<>>

\* C25 witness: one call has returned a valid result
C25_Witness ==
    /\ Returned
    /\ Result.isValid
    /\ Result.data = <<CustomerData(call.row)>>
    /\ call.row.gender # undefined

\* the five checked fields, in the order of the checks
CheckedFields == <<"number", "locationName", "userName", "email", "birthYear">>

\* the check of field f fails on the customerData object d
CheckFails(d, f) ==
    IF f = "number" THEN NumFalsy(d.number)
    ELSE IF f = "locationName" THEN StrFalsy(d.locationName)
    ELSE IF f = "userName" THEN StrFalsy(d.userName)
    ELSE IF f = "email" THEN StrFalsy(d.email) \/ ~isValidEmail(d.email)
    ELSE NumFalsy(d.birthYear) \/ d.birthYear.v < 1900 \/ d.birthYear.v > CurrentYear

\* the checked fields whose check fails on the raw record
ViolatedFields(row) ==
    {f \in {CheckedFields[i] : i \in 1..Len(CheckedFields)} :
        CheckFails(CustomerData(row), f)}

\* C26: the error list returned for a raw record holds exactly one entry
\* for each violated check among number, locationName, userName, email and
\* birthYear, every one carrying the row number and the name of its field:
\* a record that violates k checks yields k entries.
C26_OneEntryPerViolation ==
    Returned
       => /\ Len(Result.errors) = Cardinality(ViolatedFields(call.row))
          /\ \A f \in ViolatedFields(call.row) :
                Cardinality({i \in 1..Len(Result.errors) :
                                Result.errors[i].field = f}) = 1
          /\ \A i \in 1..Len(Result.errors) :
                /\ Result.errors[i].row = call.rowNumber
                /\ Result.errors[i].field \in ViolatedFields(call.row)

\* C26 witness: a record that violates all five checks was transformed as
\* row 3 and five entries came back
C26_Witness ==
    /\ Returned
    /\ call.rowNumber = 3
    /\ Cardinality(ViolatedFields(call.row)) = 5
    /\ Len(Result.errors) = 5

\* the value of a column that is written as a decimal integer without a
\* sign, white space around it aside; -1 for any other text or no column
DecimalValue(s) ==
    IF s = undefined \/ trim(s) = <<>> THEN -1
    ELSE IF \A i \in 1..Len(trim(s)) : IsDigit(trim(s)[i])
    THEN DigitPrefix(trim(s), -1)
    ELSE -1

\* the identifier column holds a positive integer
PositiveIdentifier(row) == DecimalValue(row.number) > 0

\* the year column, birthYear or else age, holds a year in 1900..CurrentYear
YearInRange(row) ==
    /\ DecimalValue(StrOr(row.birthYear, row.age)) >= 1900
    /\ DecimalValue(StrOr(row.birthYear, row.age)) <= CurrentYear

\* the returned list has an entry for field f
HasErrorOn(f) == \E i \in 1..Len(Result.errors) : Result.errors[i].field = f

\* C27: transformCSVRow returns valid only for a record whose number is a
\* positive integer and whose year (birthYear, or age) lies in
\* 1900..CurrentYear; a record with a zero, negative or non-numeric number,
\* or with a year outside the range, is returned invalid with an error on
\* that field.
\* Refuted: the number check is !customerData.number on the result of
\* parseInt, which rejects NaN and 0 only, so a negative number is valid.
C27_PositiveIdAndYearInRange ==
    Returned
       => /\ Result.isValid => PositiveIdentifier(call.row) /\ YearInRange(call.row)
          /\ ~PositiveIdentifier(call.row) => ~Result.isValid /\ HasErrorOn("number")
          /\ ~YearInRange(call.row) => ~Result.isValid /\ HasErrorOn("birthYear")

\* the values of an enum
Members(enum) == {enum[k] : k \in DOMAIN enum}

\* the record with its category columns removed
WithoutCategories(row) ==
    WithCategories(row, undefined, undefined, undefined, undefined)

\* the category values of the inputs that no case of the switches names;
\* a missing column is one of them
UnrecognizedGender == {undefined, <<"x">>}
UnrecognizedDeviceBrand == {undefined, <<"N", "o", "k", "i", "a">>}
UnrecognizedDigitalInterest == {undefined, <<"c", "h", "e", "s", "s">>}
UnrecognizedLocationType == {undefined, <<"h", "i", "l", "l">>}

\* C28: each of the four category coercions maps every input, a missing or
\* unrecognized one included, to one value of its enum; an unrecognized
\* input is mapped to "Other"; and the category columns have no part in
\* whether the row is valid.
\* Refuted: the default of mapLocationType is LocationType.URBAN, and
\* LocationType has no member "Other".
C28_CategoriesTotalWithOther ==
    Returned
       => /\ mapGender(call.row.gender) \in Members(Gender)
          /\ mapDeviceBrand(call.row.deviceBrand) \in Members(DeviceBrand)
          /\ mapDigitalInterest(call.row.digitalInterest) \in Members(DigitalInterest)
          /\ mapLocationType(call.row.locationType) \in Members(LocationType)
          /\ call.row.gender \in UnrecognizedGender
                => mapGender(call.row.gender) = "Other"
          /\ call.row.deviceBrand \in UnrecognizedDeviceBrand
                => mapDeviceBrand(call.row.deviceBrand) = "Other"
          /\ call.row.digitalInterest \in UnrecognizedDigitalInterest
                => mapDigitalInterest(call.row.digitalInterest) = "Other"
          /\ call.row.locationType \in UnrecognizedLocationType
                => mapLocationType(call.row.locationType) = "Other"
          /\ Result.isValid
                = transformCSVRow(WithoutCategories(call.row), call.rowNumber).isValid

\* cleanupImport was called for job j after it was started
CleanedUp(j) == pc[j] # "none" /\ j \notin activeImports

\* C29: cleanupImport on a job that is still processing only removes it
\* from the registry: every batch its coordinator hands to processBatch
\* still goes to the sink, as without the cleanup call.
\* Refuted: processBatch looks its progress object up in the registry and
\* dereferences the missing entry before it reaches bulkWrite.
C29_CleanupOnlyRemoves ==
    \A j \in JobIds :
        CleanedUp(j)
           => sinkCalls[j] = submitted[j]

\* C30: currentBatch of a job never decreases in any step, from creation
\* through finalization, also when the write of the final partial batch
\* throws.
\* Refuted: processBatch sets currentBatch to processedBatches + 1 on entry;
\* when the final write throws processedBatches is not advanced, and the
\* finalization sets currentBatch back to processedBatches.
C30_CurrentBatchMonotone ==
    [][\A j \in JobIds :
          progress'[j].currentBatch >= progress[j].currentBatch]_vars

====
